---- MODULE Spec2Model ----
(***************************************************************************)
(* Model of the CliticFeats block (clitics/cliticfeats.py): one dependency *)
(* tree per sentence, the helper procedures of the block as operators, the *)
(* block's handlers (process_start, process_node) and direct calls of the  *)
(* static helpers (as tests/test_cliticfeats.py makes them) as actions.    *)
(*                                                                         *)
(* A node is identified by its ord; node 0 is the virtual root.  A deprel  *)
(* is the sequence of its ":"-separated segments (<<"aux","pass">> is      *)
(* "aux:pass", <<>> is the empty deprel).  Czech strings are written in    *)
(* ASCII ("inicialni" for the label with diacritics).                      *)
(***************************************************************************)
EXTENDS Integers, Sequences, FiniteSets, TLC

VARIABLES parent, deprel, form, upos, pc, cursor, out, frame, ret,
          wkind, warg, wnode, wvisited, wstack, wparts, wcount, wsteps

tree == <<parent, deprel, form, upos>>
walk == <<wkind, warg, wnode, wvisited, wstack, wparts, wcount, wsteps>>
vars == <<parent, deprel, form, upos, pc, cursor, out, frame, ret,
          wkind, warg, wnode, wvisited, wstack, wparts, wcount, wsteps>>

(* ------------------------------ bounds -------------------------------- *)

\* Number of tokens of a sentence (the virtual root not counted).
MaxOrd == 4

(* --------------------------- program constants ------------------------ *)

None == -1
GROUP_UNIT == -2

\* the set with xcomp taken for a subordinating relation
_SUBORDINATING_DEPRELS_WithXcomp == {"ccomp", "advcl", "acl", "csubj", "xcomp"}

_SUBORDINATING_DEPRELS == {"ccomp", "advcl", "acl", "csubj"}
_CLITIC_GROUP_FORMS == {"se", "mu", "ho", "bych", "jsem"}

HEADER ==
  <<"sent_id", "ord", "predicate_form", "clause_type", "clause_position",
    "relation_to_regent">>

(* ------------------------------ the tree ------------------------------ *)

\* The nodes of the sentence at hand: 0 (the virtual root) and its tokens.
Nodes == DOMAIN parent
LastOrd == Cardinality(Nodes) - 1
Tokens == 1..LastOrd

\* FakeNode.is_root / udapi Node.is_root
is_root(n) == n = 0

Ord(n) == n

\* str.lower() on the forms of the vocabulary
Lower(f) ==
  CASE f = "Se" -> "se"
    [] f = "Si" -> "si"
    [] OTHER -> f

\* node.children: the nodes whose parent is n, in ord order
RECURSIVE ChildrenFrom(_, _)
ChildrenFrom(n, k) ==
  IF k > LastOrd THEN <<>>
  ELSE (IF parent[k] = n THEN <<k>> ELSE <<>>) \o ChildrenFrom(n, k + 1)

children(n) == ChildrenFrom(n, 1)

\* deprel.split(":")[0] if deprel else ""
BaseDeprel(n) == IF deprel[n] = <<>> THEN "" ELSE deprel[n][1]

\* parts.sort(key=lambda n: n.ord)
SortByOrd(s) == SortSeq(s, LAMBDA a, b : Ord(a) < Ord(b))

SeqToSet(s) == {s[i] : i \in DOMAIN s}

\* " ".join(strings)
RECURSIVE Join(_)
Join(s) ==
  IF s = <<>> THEN ""
  ELSE IF Len(s) = 1 THEN s[1]
  ELSE s[1] \o " " \o Join(Tail(s))

(* ----------------------- _predicate_form / _predicate_nodes ----------- *)

\* for child in n.children: if base in ("aux", "cop"): parts.append(child)
AuxCopChildren(n) ==
  SelectSeq(children(n), LAMBDA c : BaseDeprel(c) \in {"aux", "cop"})

\* the climb that adds the xcomp heads without their own aux/cop children
RECURSIVE PredicateFormClimb_HeadsOnly(_, _, _)
PredicateFormClimb_HeadsOnly(node, visited, parts) ==
  IF BaseDeprel(node) # "xcomp" \/ parent[node] = None \/ is_root(parent[node])
  THEN parts
  ELSE LET head == parent[node] IN
       IF head \in visited THEN parts
       ELSE PredicateFormClimb_HeadsOnly(head, visited \cup {head},
                                         parts \o <<head>>)

\* the while-loop of _predicate_form (lines 84-97)
RECURSIVE PredicateFormClimb(_, _, _)
PredicateFormClimb(node, visited, parts) ==
  IF BaseDeprel(node) # "xcomp" \/ parent[node] = None \/ is_root(parent[node])
  THEN parts
  ELSE LET head == parent[node] IN
       IF head \in visited THEN parts
       ELSE PredicateFormClimb(head, visited \cup {head},
                               parts \o <<head>> \o AuxCopChildren(head))

PredicateFormParts(predicate) ==
  SortByOrd(PredicateFormClimb(predicate, {predicate},
                               <<predicate>> \o AuxCopChildren(predicate)))

_predicate_form(predicate) ==
  IF predicate = None \/ is_root(predicate) THEN "_"
  ELSE LET parts == PredicateFormParts(predicate) IN
       Join([i \in DOMAIN parts |-> form[parts[i]]])

\* the climb of _predicate_nodes without the aux/cop children of the heads
RECURSIVE PredicateNodesClimb_HeadsOnly(_, _, _)
PredicateNodesClimb_HeadsOnly(node, visited, parts) ==
  IF BaseDeprel(node) # "xcomp" \/ parent[node] = None \/ is_root(parent[node])
  THEN parts
  ELSE LET head == parent[node] IN
       IF head \in visited THEN parts
       ELSE PredicateNodesClimb_HeadsOnly(head, visited \cup {head},
                                          parts \o <<head>>)

\* the while-loop of _predicate_nodes (lines 216-229)
RECURSIVE PredicateNodesClimb(_, _, _)
PredicateNodesClimb(node, visited, parts) ==
  IF BaseDeprel(node) # "xcomp" \/ parent[node] = None \/ is_root(parent[node])
  THEN parts
  ELSE LET head == parent[node] IN
       IF head \in visited THEN parts
       ELSE PredicateNodesClimb(head, visited \cup {head},
                                parts \o <<head>> \o AuxCopChildren(head))

_predicate_nodes(predicate) ==
  IF predicate = None \/ is_root(predicate) THEN <<>>
  ELSE SortByOrd(PredicateNodesClimb(predicate, {predicate},
                                     <<predicate>> \o AuxCopChildren(predicate)))

(* ------------------------------ _clause_type -------------------------- *)

\* the walk whose cycle guard answers VV
RECURSIVE ClauseTypeWalk_CycleIsVV(_, _)
ClauseTypeWalk_CycleIsVV(node, visited) ==
  IF node \in visited THEN "VV"
  ELSE IF BaseDeprel(node) = "root" THEN "HV"
  ELSE IF BaseDeprel(node) \in _SUBORDINATING_DEPRELS THEN "VV"
  ELSE IF parent[node] = None \/ is_root(parent[node]) THEN "HV"
  ELSE ClauseTypeWalk_CycleIsVV(parent[node], visited \cup {node})

RECURSIVE ClauseTypeWalk(_, _)
ClauseTypeWalk(node, visited) ==
  IF node \in visited THEN "HV"
  ELSE IF BaseDeprel(node) = "root" THEN "HV"
  ELSE IF BaseDeprel(node) \in _SUBORDINATING_DEPRELS THEN "VV"
  ELSE IF parent[node] = None \/ is_root(parent[node]) THEN "HV"
  ELSE ClauseTypeWalk(parent[node], visited \cup {node})

\* _clause_type whose guard forgets the virtual root
_clause_type_NoRootGuard(predicate) ==
  IF predicate = None THEN "_"
  ELSE ClauseTypeWalk(predicate, {})

_clause_type(predicate) ==
  IF predicate = None \/ is_root(predicate) THEN "_"
  ELSE ClauseTypeWalk(predicate, {})

(* ------------------- _clause_root / _collect_subtree_nodes ------------ *)

\* the climb that stops one xcomp link up
ClauseRootWalk_OneStep(node, visited, predicate) ==
  IF node = None \/ is_root(node) THEN predicate
  ELSE IF BaseDeprel(node) # "xcomp" \/ parent[node] = None
          \/ is_root(parent[node])
  THEN node
  ELSE parent[node]

RECURSIVE ClauseRootWalk(_, _, _)
ClauseRootWalk(node, visited, predicate) ==
  IF node = None \/ is_root(node) THEN predicate
  ELSE IF node \in visited THEN predicate
  ELSE IF BaseDeprel(node) # "xcomp" \/ parent[node] = None
          \/ is_root(parent[node])
  THEN node
  ELSE ClauseRootWalk(parent[node], visited \cup {node}, predicate)

_clause_root(predicate) ==
  IF predicate = None \/ is_root(predicate) THEN None
  ELSE ClauseRootWalk(predicate, {}, predicate)

Reverse(s) == [i \in DOMAIN s |-> s[Len(s) + 1 - i]]

\* stack.pop() takes the last element of the stack
RECURSIVE CollectLoop(_, _, _)
CollectLoop(stack, seen, nodes) ==
  IF stack = <<>> THEN nodes
  ELSE LET node == stack[Len(stack)]
           rest == SubSeq(stack, 1, Len(stack) - 1)
       IN IF node \in seen THEN CollectLoop(rest, seen, nodes)
          ELSE CollectLoop(rest \o Reverse(children(node)), seen \cup {node},
                           nodes \o <<node>>)

_collect_subtree_nodes(root) == CollectLoop(<<root>>, {}, <<>>)

_clause_nodes(predicate) ==
  LET clause_root == _clause_root(predicate) IN
  IF clause_root = None \/ is_root(clause_root) THEN <<>>
  ELSE SortByOrd(_collect_subtree_nodes(clause_root))

\* [n for n in clause_nodes if n.upos != "PUNCT"]
NonPunct(s) == SelectSeq(s, LAMBDA n : upos[n] # "PUNCT")

(* ------------------- _is_group_clitic / _clitic_group ----------------- *)

\* _is_group_clitic that takes the preposition "se" for a clitic
_is_group_clitic_NoAdpTest(node) ==
  IF node = None THEN FALSE
  ELSE Lower(form[node]) \in _CLITIC_GROUP_FORMS

_is_group_clitic(node) ==
  IF node = None THEN FALSE
  ELSE LET f == Lower(form[node]) IN
       IF f \notin _CLITIC_GROUP_FORMS THEN FALSE
       ELSE IF f = "se" /\ upos[node] = "ADP" THEN FALSE
       ELSE TRUE

\* list.index(x): the first position of x, 0 when x is absent (ValueError)
IndexOf(s, x) ==
  IF \E i \in DOMAIN s : s[i] = x
  THEN CHOOSE i \in DOMAIN s : s[i] = x /\ \A j \in 1..(i - 1) : s[j] # x
  ELSE 0

RECURSIVE GroupStart(_, _)
GroupStart(non_punct, start) ==
  IF start > 1 /\ _is_group_clitic(non_punct[start - 1])
  THEN GroupStart(non_punct, start - 1)
  ELSE start

RECURSIVE GroupEnd(_, _)
GroupEnd(non_punct, end) ==
  IF end + 1 <= Len(non_punct) /\ _is_group_clitic(non_punct[end + 1])
  THEN GroupEnd(non_punct, end + 1)
  ELSE end

_clitic_group(node, predicate) ==
  IF node = None THEN <<>>
  ELSE LET clause_nodes == _clause_nodes(predicate) IN
       IF clause_nodes = <<>> THEN <<node>>
       ELSE LET non_punct == NonPunct(clause_nodes)
                idx == IndexOf(non_punct, node)
            IN IF idx = 0 THEN <<node>>
               ELSE SubSeq(non_punct, GroupStart(non_punct, idx),
                           GroupEnd(non_punct, idx))

(* ------------------------------ _clause_units ------------------------- *)

\* the inner while: skip the rest of a run of group members
RECURSIVE SkipGroup(_, _, _)
SkipGroup(non_punct, group_set, i) ==
  IF i <= Len(non_punct) /\ non_punct[i] \in group_set
  THEN SkipGroup(non_punct, group_set, i + 1)
  ELSE i

\* the outer while; positions are 1-based here, group_idx is 0-based as in
\* the code, None when the group was not met
RECURSIVE UnitsLoop(_, _, _, _, _)
UnitsLoop(non_punct, group_set, i, units, group_idx) ==
  IF i > Len(non_punct) THEN [units |-> units, group_idx |-> group_idx]
  ELSE LET node == non_punct[i] IN
       IF node \in group_set
       THEN UnitsLoop(non_punct, group_set,
                      SkipGroup(non_punct, group_set, i + 1),
                      IF group_idx = None THEN units \o <<GROUP_UNIT>>
                      ELSE units,
                      IF group_idx = None THEN Len(units) ELSE group_idx)
       ELSE UnitsLoop(non_punct, group_set, i + 1, units \o <<node>>,
                      group_idx)

_clause_units(clause_nodes, clitic_group) ==
  UnitsLoop(NonPunct(clause_nodes), SeqToSet(clitic_group), 1, <<>>, None)

\* units[k] for a 0-based k
UnitAt(units, k) == units[k + 1]

(* --------------------------- _clause_position ------------------------- *)

\* _clause_position that calls a group at the end of the clause final
\* whatever precedes it
_clause_position_AnyNeighbour(predicate, clitic_group) ==
  LET cu == _clause_units(_clause_nodes(predicate), clitic_group)
      units == cu.units
      group_idx == cu.group_idx
  IN IF group_idx = None THEN "_"
     ELSE IF group_idx = 0 THEN "inicialni"
     ELSE IF group_idx = 1 THEN "postinicialni"
     ELSE IF group_idx = Len(units) - 1 THEN "finalni"
     ELSE IF group_idx = Len(units) - 2 /\ group_idx + 1 < Len(units)
             /\ UnitAt(units, group_idx + 1) = predicate
     THEN "prefinalni"
     ELSE "medialni"

_clause_position(predicate, clitic_group) ==
  LET cu == _clause_units(_clause_nodes(predicate), clitic_group)
      units == cu.units
      group_idx == cu.group_idx
  IN IF group_idx = None THEN "_"
     ELSE IF group_idx = 0 THEN "inicialni"
     ELSE IF group_idx = 1 THEN "postinicialni"
     ELSE IF group_idx = Len(units) - 1 /\ group_idx > 0
             /\ UnitAt(units, group_idx - 1) = predicate
     THEN "finalni"
     ELSE IF group_idx = Len(units) - 2 /\ group_idx + 1 < Len(units)
             /\ UnitAt(units, group_idx + 1) = predicate
     THEN "prefinalni"
     ELSE "medialni"

(* -------------------------- _relation_to_regent ----------------------- *)

\* _relation_to_regent that asks on which side of the governor the group is
\* before it asks whether the group stands between two predicate members
_relation_to_regent_SideFirst(predicate, clitic_group) ==
  LET cu == _clause_units(_clause_nodes(predicate), clitic_group)
      units == cu.units
      group_idx == cu.group_idx
  IN IF group_idx = None \/ predicate = None
        \/ predicate \notin SeqToSet(units)
     THEN "_"
     ELSE LET pred_idx == IndexOf(units, predicate) - 1
              complex_predicate == SeqToSet(_predicate_nodes(predicate))
              left == IF group_idx > 0 THEN UnitAt(units, group_idx - 1)
                      ELSE None
              right == IF group_idx + 1 < Len(units)
                       THEN UnitAt(units, group_idx + 1) ELSE None
          IN IF group_idx + 1 = pred_idx THEN "kontaktni preverbalni"
             ELSE IF group_idx = pred_idx + 1 THEN "kontaktni postverbalni"
             ELSE IF group_idx < pred_idx THEN "izolovana"
             ELSE IF left \in complex_predicate /\ right \in complex_predicate
             THEN "kontaktni interverbalni"
             ELSE "jine"

_relation_to_regent(predicate, clitic_group) ==
  LET cu == _clause_units(_clause_nodes(predicate), clitic_group)
      units == cu.units
      group_idx == cu.group_idx
  IN IF group_idx = None \/ predicate = None
        \/ predicate \notin SeqToSet(units)
     THEN "_"
     ELSE LET pred_idx == IndexOf(units, predicate) - 1
              complex_predicate == SeqToSet(_predicate_nodes(predicate))
              left == IF group_idx > 0 THEN UnitAt(units, group_idx - 1)
                      ELSE None
              right == IF group_idx + 1 < Len(units)
                       THEN UnitAt(units, group_idx + 1) ELSE None
          IN IF group_idx + 1 = pred_idx THEN "kontaktni preverbalni"
             ELSE IF group_idx = pred_idx + 1 THEN "kontaktni postverbalni"
             ELSE IF left \in complex_predicate /\ right \in complex_predicate
             THEN "kontaktni interverbalni"
             ELSE IF group_idx < pred_idx THEN "izolovana"
             ELSE "jine"

(* ------------------------------ sentences ----------------------------- *)

Word(f, u, d) == [form |-> f, upos |-> u, deprel |-> d]

\* FakeNode("<root>", 0, is_root=True): upos "X", deprel ""
ROOT_WORD == Word("<root>", "X", <<>>)

\* No set of tokens is closed under parent: every token's chain of parents
\* ends at the virtual root or at an absent parent.
Acyclic(p, n) ==
  \A S \in SUBSET (1..n) : S # {} => \E t \in S : p[t] \notin S

\* UD trees: every token has a parent, exactly one token hangs on the virtual
\* root, and the parents form a tree.
TreeShapes(n) ==
  {p \in [1..n -> 0..n] :
     Acyclic(p, n) /\ Cardinality({t \in 1..n : p[t] = 0}) = 1}

\* as TreeShapes, and a token may have no parent (a node never attached)
OrphanShapes(n) == {p \in [1..n -> {None} \cup 0..n] : Acyclic(p, n)}

\* any parent links, cycles among the tokens included
GraphShapes(n) == [1..n -> 0..n]

Sentence(n, p, w) ==
  /\ parent = [k \in 0..n |-> IF k = 0 THEN None ELSE p[k]]
  /\ deprel = [k \in 0..n |-> IF k = 0 THEN ROOT_WORD.deprel ELSE w[k].deprel]
  /\ form = [k \in 0..n |-> IF k = 0 THEN ROOT_WORD.form ELSE w[k].form]
  /\ upos = [k \in 0..n |-> IF k = 0 THEN ROOT_WORD.upos ELSE w[k].upos]

NoFrame ==
  [node |-> None, emitted |-> FALSE, predicate |-> None, clitic_group |-> <<>>]
NoRet == [fn |-> "", node |-> None, predicate |-> None, val |-> "_"]

Idle ==
  /\ out = <<>> /\ frame = NoFrame /\ ret = NoRet
  /\ wkind = "" /\ warg = None /\ wnode = None /\ wvisited = {}
  /\ wstack = <<>> /\ wparts = <<>> /\ wcount = [n \in Nodes |-> 0]
  /\ wsteps = 0

(* ------------------------- the block's handlers ----------------------- *)

\* node.root.sent_id or ""
sent_id == "s1"

\* node.root.get_sentence(): the surface text of the sentence
get_sentence == Join([k \in Tokens |-> form[k]])

process_start ==
  /\ pc = "start"
  /\ out' = Append(out, HEADER)
  /\ pc' = "nodes"
  /\ UNCHANGED <<tree, cursor, frame, ret, walk>>

\* IsTarget without the test of the upos
IsTarget_AnyUpos(node) == ~(Lower(form[node]) # "se")

\* lines 42-43: the tokens process_node goes on with
IsTarget(node) == ~(Lower(form[node]) # "se" \/ upos[node] = "ADP")

\* the block is run on the tokens of the sentence in ord order
process_node ==
  /\ pc = "nodes"
  /\ cursor \in Tokens
  /\ LET node == cursor IN
     IF ~IsTarget(node)
     THEN /\ out' = out
          /\ frame' = [NoFrame EXCEPT !.node = node]
     ELSE LET predicate == parent[node]
              predicate_form == _predicate_form(predicate)
              clause_type == _clause_type(predicate)
              clitic_group == _clitic_group(node, predicate)
              clause_position == _clause_position(predicate, clitic_group)
              relation_to_regent == _relation_to_regent(predicate, clitic_group)
          IN /\ out' = out \o
                  << <<sent_id, ToString(Ord(node)), predicate_form,
                       clause_type, clause_position, relation_to_regent>>,
                     <<get_sentence>> >>
             /\ frame' = [node |-> node, emitted |-> TRUE,
                          predicate |-> predicate,
                          clitic_group |-> clitic_group]
  /\ cursor' = cursor + 1
  /\ UNCHANGED <<tree, pc, ret, walk>>

(* ----------------- the block run on token-rich sentences -------------- *)

\* se (clitic and preposition), si, a capitalised se and a verb
VocabEmit ==
  { Word("se", "PRON", <<"expl", "pv">>), Word("Se", "PRON", <<"expl", "pv">>),
    Word("se", "ADP", <<"case">>), Word("si", "PRON", <<"expl", "pv">>),
    Word("cetl", "VERB", <<"root">>) }

\* the length of the sentences of the specifications that need no more than
\* three tokens
ShortLen == MaxOrd - 1

Init ==
  /\ \E n \in 1..ShortLen :
       \E p \in OrphanShapes(n), w \in [1..n -> VocabEmit] : Sentence(n, p, w)
  /\ pc = "start" /\ cursor = 1
  /\ Idle

Next == process_start \/ process_node

Spec == Init /\ [][Next]_vars

(* ------------- the block run on sentences with clitic clusters -------- *)

\* the clitics se and ho, the preposition se, two verbs (one of them an
\* xcomp complement), a comma, and a "se" mistagged as punctuation
VocabGroup ==
  { Word("se", "PRON", <<"expl", "pv">>), Word("ho", "PRON", <<"obj">>),
    Word("se", "ADP", <<"case">>), Word("cetl", "VERB", <<"root">>),
    Word("cist", "VERB", <<"xcomp">>), Word(",", "PUNCT", <<"punct">>),
    Word("se", "PUNCT", <<"punct">>) }

\* the tokens of the tests: cetl, ho, se and the short pronoun mi
VocabTest ==
  { Word("cetl", "VERB", <<"root">>), Word("ho", "PRON", <<"obj">>),
    Word("se", "PRON", <<"expl", "pv">>), Word("mi", "PRON", <<"iobj">>) }

InitTest ==
  /\ \E n \in 1..MaxOrd :
       \E p \in TreeShapes(n), w \in [1..n -> VocabTest] : Sentence(n, p, w)
  /\ pc = "start" /\ cursor = 1
  /\ Idle

SpecTest == InitTest /\ [][Next]_vars

InitGroup ==
  /\ \E n \in 1..MaxOrd :
       \E p \in TreeShapes(n), w \in [1..n -> VocabGroup] : Sentence(n, p, w)
  /\ pc = "start" /\ cursor = 1
  /\ Idle

SpecGroup == InitGroup /\ [][Next]_vars

(* ------------------- direct calls of the static helpers --------------- *)

Args == Nodes \cup {None}

Returned(fn, predicate, val) ==
  [fn |-> fn, node |-> None, predicate |-> predicate, val |-> val]

Call_predicate_form(predicate) ==
  /\ pc = "calls"
  /\ ret' = Returned("_predicate_form", predicate, _predicate_form(predicate))
  /\ UNCHANGED <<tree, pc, cursor, out, frame, walk>>

Call_predicate_nodes(predicate) ==
  /\ pc = "calls"
  /\ ret' = Returned("_predicate_nodes", predicate, _predicate_nodes(predicate))
  /\ UNCHANGED <<tree, pc, cursor, out, frame, walk>>

Call_clause_type(predicate) ==
  /\ pc = "calls"
  /\ ret' = Returned("_clause_type", predicate, _clause_type(predicate))
  /\ UNCHANGED <<tree, pc, cursor, out, frame, walk>>

Call_clause_root(predicate) ==
  /\ pc = "calls"
  /\ ret' = Returned("_clause_root", predicate, _clause_root(predicate))
  /\ UNCHANGED <<tree, pc, cursor, out, frame, walk>>

\* a modal verb's infinitive, a passive auxiliary, a copula, a subject and a
\* main verb
VocabPred ==
  { Word("chce", "VERB", <<"xcomp">>), Word("bude", "AUX", <<"aux", "pass">>),
    Word("je", "AUX", <<"cop">>), Word("on", "PRON", <<"nsubj">>),
    Word("cetl", "VERB", <<"root">>) }

InitPred ==
  /\ \E n \in 1..MaxOrd :
       \E p \in TreeShapes(n), w \in [1..n -> VocabPred] : Sentence(n, p, w)
  /\ pc = "calls" /\ cursor = 1
  /\ Idle

NextPred == \E predicate \in Args : Call_predicate_form(predicate)

SpecPred == InitPred /\ [][NextPred]_vars

\* a main verb, an infinitive, the verb of a relative clause, a subject and a
\* token without any deprel
VocabClause ==
  { Word("cetl", "VERB", <<"root">>), Word("chce", "VERB", <<"xcomp">>),
    Word("psal", "VERB", <<"acl", "relcl">>), Word("on", "PRON", <<"nsubj">>),
    Word("x", "X", <<>>) }

InitClause ==
  /\ \E n \in 1..ShortLen :
       \E p \in TreeShapes(n), w \in [1..n -> VocabClause] : Sentence(n, p, w)
  /\ pc = "calls" /\ cursor = 1
  /\ Idle

NextClause ==
  \E predicate \in Args :
    \/ Call_clause_type(predicate)
    \/ Call_clause_root(predicate)
    \/ Call_predicate_nodes(predicate)

SpecClause == InitClause /\ [][NextClause]_vars

\* malformed input: the parent links may run in a cycle
VocabCycle ==
  { Word("cetl", "VERB", <<"root">>), Word("psal", "VERB", <<"acl", "relcl">>),
    Word("on", "PRON", <<"nsubj">>) }

InitCycle ==
  /\ \E n \in 1..ShortLen :
       \E p \in GraphShapes(n), w \in [1..n -> VocabCycle] : Sentence(n, p, w)
  /\ pc = "calls" /\ cursor = 1
  /\ Idle

NextCycle == \E predicate \in Args : Call_clause_type(predicate)

SpecCycle == InitCycle /\ [][NextCycle]_vars

\* an infinitive, a passive auxiliary, a copula, a main verb and a token
\* whose surface form is an underscore
VocabAgree ==
  { Word("chce", "VERB", <<"xcomp">>), Word("bude", "AUX", <<"aux", "pass">>),
    Word("je", "AUX", <<"cop">>), Word("cetl", "VERB", <<"root">>),
    Word("_", "SYM", <<"dep">>) }

InitAgree ==
  /\ \E n \in 1..ShortLen :
       \E p \in TreeShapes(n), w \in [1..n -> VocabAgree] : Sentence(n, p, w)
  /\ pc = "calls" /\ cursor = 1
  /\ Idle

NextAgree ==
  \E predicate \in Args :
    \/ Call_predicate_form(predicate)
    \/ Call_predicate_nodes(predicate)

SpecAgree == InitAgree /\ [][NextAgree]_vars

\* _relation_to_regent called as the tests call it, with a governor and a
\* list of tokens as the clitic group
Call_relation_to_regent(predicate, clitic_group) ==
  /\ pc = "calls"
  /\ ret' = Returned("_relation_to_regent", predicate,
                     _relation_to_regent(predicate, clitic_group))
  /\ frame' = [NoFrame EXCEPT !.predicate = predicate,
                               !.clitic_group = clitic_group]
  /\ pc' = "called"
  /\ UNCHANGED <<tree, cursor, out, walk>>

\* the caller has compared the returned label and drops it and the arguments
Compared ==
  /\ pc = "called"
  /\ pc' = "calls" /\ ret' = NoRet /\ frame' = NoFrame
  /\ UNCHANGED <<tree, cursor, out, walk>>

\* the lists of tokens in ord order, the empty list included
TokenLists ==
  {SelectSeq([k \in 1..LastOrd |-> k], LAMBDA t : t \in S) : S \in SUBSET Tokens}

\* a main verb, an infinitive, an auxiliary and a comma; whether a token is a
\* clitic is decided by the list passed as the group, not by its form
VocabRel ==
  { Word("cetl", "VERB", <<"root">>), Word("cist", "VERB", <<"xcomp">>),
    Word("bude", "AUX", <<"aux">>), Word(",", "PUNCT", <<"punct">>) }

InitRel ==
  /\ \E n \in 1..MaxOrd :
       \E p \in TreeShapes(n), w \in [1..n -> VocabRel] : Sentence(n, p, w)
  /\ pc = "calls" /\ cursor = 1
  /\ Idle

NextRel ==
  \/ \E predicate \in Args, clitic_group \in TokenLists :
       Call_relation_to_regent(predicate, clitic_group)
  \/ Compared

SpecRel == InitRel /\ [][NextRel]_vars

(* --------------- the traversals, one loop iteration a step ------------ *)
(* wnode, wvisited, wstack and wparts are the locals node, visited/seen,   *)
(* stack and parts/nodes of the running helper; wcount[n] counts how often *)
(* the loop has taken n up (added it to visited/seen), wsteps the          *)
(* iterations of the loop.                                                 *)

Begin(kind, arg, node, visited, stack, parts) ==
  /\ wkind' = kind /\ warg' = arg /\ wnode' = node /\ wvisited' = visited
  /\ wstack' = stack /\ wparts' = parts
  /\ wcount' = [n \in Nodes |-> IF n \in visited THEN 1 ELSE 0]
  /\ wsteps' = 0
  /\ pc' = "loop"
  /\ UNCHANGED <<tree, cursor, out, frame, ret>>

\* the guard of a helper returns at once
ReturnAtOnce(kind, arg, val) ==
  /\ wkind' = kind /\ warg' = arg
  /\ pc' = "done"
  /\ ret' = Returned(kind, arg, val)
  /\ UNCHANGED <<tree, cursor, out, frame, wnode, wvisited, wstack, wparts,
                 wcount, wsteps>>

\* the loop is left and the helper returns val
Return(val) ==
  /\ pc' = "done"
  /\ ret' = Returned(wkind, warg, val)
  /\ wsteps' = wsteps + 1
  /\ UNCHANGED <<tree, cursor, out, frame, wkind, warg, wnode, wvisited,
                 wstack, wparts, wcount>>

\* the loop takes up node n and goes on
TakeUp(n, node, stack, parts) ==
  /\ wvisited' = wvisited \cup {n}
  /\ wcount' = [wcount EXCEPT ![n] = @ + 1]
  /\ wnode' = node /\ wstack' = stack /\ wparts' = parts
  /\ wsteps' = wsteps + 1
  /\ UNCHANGED <<tree, pc, cursor, out, frame, ret, wkind, warg>>

Start_predicate_form(predicate) ==
  /\ pc = "walk"
  /\ IF predicate = None \/ is_root(predicate)
     THEN ReturnAtOnce("_predicate_form", predicate, "_")
     ELSE Begin("_predicate_form", predicate, predicate, {predicate}, <<>>,
                <<predicate>> \o AuxCopChildren(predicate))

PartsJoined(parts) ==
  LET sorted == SortByOrd(parts) IN
  Join([i \in DOMAIN sorted |-> form[sorted[i]]])

Step_predicate_form ==
  /\ pc = "loop" /\ wkind = "_predicate_form"
  /\ IF BaseDeprel(wnode) # "xcomp" \/ parent[wnode] = None
        \/ is_root(parent[wnode])
     THEN Return(PartsJoined(wparts))
     ELSE LET head == parent[wnode] IN
          IF head \in wvisited THEN Return(PartsJoined(wparts))
          ELSE TakeUp(head, head, wstack,
                      wparts \o <<head>> \o AuxCopChildren(head))

Start_clause_type(predicate) ==
  /\ pc = "walk"
  /\ IF predicate = None \/ is_root(predicate)
     THEN ReturnAtOnce("_clause_type", predicate, "_")
     ELSE Begin("_clause_type", predicate, predicate, {}, <<>>, <<>>)

\* the iteration of _clause_type without its cycle guard
Step_clause_type_NoGuard ==
  /\ pc = "loop" /\ wkind = "_clause_type"
  /\ IF BaseDeprel(wnode) = "root" THEN Return("HV")
     ELSE IF BaseDeprel(wnode) \in _SUBORDINATING_DEPRELS THEN Return("VV")
     ELSE IF parent[wnode] = None \/ is_root(parent[wnode]) THEN Return("HV")
     ELSE TakeUp(wnode, parent[wnode], wstack, wparts)

\* an iteration that goes on to the parent has added the node to visited; in
\* one that returns the addition is of no consequence
Step_clause_type ==
  /\ pc = "loop" /\ wkind = "_clause_type"
  /\ IF wnode \in wvisited THEN Return("HV")
     ELSE IF BaseDeprel(wnode) = "root" THEN Return("HV")
     ELSE IF BaseDeprel(wnode) \in _SUBORDINATING_DEPRELS THEN Return("VV")
     ELSE IF parent[wnode] = None \/ is_root(parent[wnode]) THEN Return("HV")
     ELSE TakeUp(wnode, parent[wnode], wstack, wparts)

Start_clause_root(predicate) ==
  /\ pc = "walk"
  /\ IF predicate = None \/ is_root(predicate)
     THEN ReturnAtOnce("_clause_root", predicate, None)
     ELSE Begin("_clause_root", predicate, predicate, {}, <<>>, <<>>)

Step_clause_root ==
  /\ pc = "loop" /\ wkind = "_clause_root"
  /\ IF wnode = None \/ is_root(wnode) THEN Return(warg)
     ELSE IF wnode \in wvisited THEN Return(warg)
     ELSE IF BaseDeprel(wnode) # "xcomp" \/ parent[wnode] = None
             \/ is_root(parent[wnode])
     THEN Return(wnode)
     ELSE TakeUp(wnode, parent[wnode], wstack, wparts)

Start_collect_subtree_nodes(root) ==
  /\ pc = "walk"
  /\ root # None
  /\ Begin("_collect_subtree_nodes", root, None, {}, <<root>>, <<>>)

\* popping a node that was seen is an iteration that takes nothing up
Step_collect_subtree_nodes ==
  /\ pc = "loop" /\ wkind = "_collect_subtree_nodes"
  /\ IF wstack = <<>> THEN Return(wparts)
     ELSE LET node == wstack[Len(wstack)]
              rest == SubSeq(wstack, 1, Len(wstack) - 1)
          IN IF node \in wvisited
             THEN /\ wstack' = rest
                  /\ wsteps' = wsteps + 1
                  /\ UNCHANGED <<tree, pc, cursor, out, frame, ret, wkind,
                                 warg, wnode, wvisited, wparts, wcount>>
             ELSE TakeUp(node, wnode, rest \o Reverse(children(node)),
                         wparts \o <<node>>)

\* an infinitive, an auxiliary and the verb of a relative clause, on parent
\* links that may run in a cycle
VocabWalk ==
  { Word("chce", "VERB", <<"xcomp">>), Word("bude", "AUX", <<"aux", "pass">>),
    Word("psal", "VERB", <<"acl", "relcl">>) }

InitWalk ==
  /\ \E n \in 1..ShortLen :
       \E p \in GraphShapes(n), w \in [1..n -> VocabWalk] : Sentence(n, p, w)
  /\ pc = "walk" /\ cursor = 1
  /\ Idle

NextWalk ==
  \/ \E predicate \in Args :
       \/ Start_predicate_form(predicate)
       \/ Start_clause_type(predicate)
       \/ Start_clause_root(predicate)
  \/ \E root \in Nodes : Start_collect_subtree_nodes(root)
  \/ Step_predicate_form
  \/ Step_clause_type
  \/ Step_clause_root
  \/ Step_collect_subtree_nodes

SpecWalk == InitWalk /\ [][NextWalk]_vars

(* ---------------------------------------------------------------------- *)
(* Properties of the output of the block (Spec)                           *)
(* ---------------------------------------------------------------------- *)

IsDataRow(r) == Len(r) = 6 /\ r # HEADER

\* the number of data records printed for token t
RowsOf(t) ==
  Cardinality({i \in DOMAIN out : IsDataRow(out[i]) /\ out[i][2] = ToString(t)})

Processed(t) == pc = "nodes" /\ t \in Tokens /\ t < cursor

\* the data record of the process_node call that has just returned
LastRow == out[Len(out) - 1]

\* C1 (as amended): process_node prints exactly one data record for a token
\* if and only if the token's lowercased form is "se" and its upos is not
\* ADP; every other token, "si" and the preposition "se" included, gets no
\* record.
C1_EmitsIffSe ==
  \A t \in Tokens :
    Processed(t) =>
      RowsOf(t) = IF Lower(form[t]) = "se" /\ upos[t] # "ADP" THEN 1 ELSE 0

\* C1 (as claimed): one data record if and only if the lowercased form is
\* "se" or "si" and the upos is not ADP.
C1_EmitsIffSeOrSi ==
  \A t \in Tokens :
    Processed(t) =>
      RowsOf(t) = IF Lower(form[t]) \in {"se", "si"} /\ upos[t] # "ADP"
                  THEN 1 ELSE 0

\* a sentence has been processed in which a capitalised clitic got its
\* record and a preposition "se" got none
C1_Witness ==
  /\ pc = "nodes" /\ cursor > LastOrd
  /\ \E t, u \in Tokens :
       /\ form[t] = "Se" /\ upos[t] # "ADP" /\ RowsOf(t) = 1
       /\ form[u] = "se" /\ upos[u] = "ADP" /\ RowsOf(u) = 0

\* C2: when the governor of the clitic is absent or is the virtual root, the
\* record's predicate_form, clause_type, clause_position and
\* relation_to_regent are all "_" and the clitic group is the clitic alone.
C2_NoGovernorGivesUnderscores ==
  (frame.emitted /\ (frame.predicate = None \/ is_root(frame.predicate))) =>
    /\ LastRow[3] = "_" /\ LastRow[4] = "_"
    /\ LastRow[5] = "_" /\ LastRow[6] = "_"
    /\ frame.clitic_group = <<frame.node>>
    /\ _predicate_form(frame.predicate) = "_"
    /\ _clause_type(frame.predicate) = "_"

\* a clitic under the virtual root has been processed after a clitic without
\* any parent
C2_Witness ==
  /\ frame.emitted /\ is_root(frame.predicate)
  /\ \E t \in Tokens :
       t < frame.node /\ IsTarget(t) /\ parent[t] = None /\ RowsOf(t) = 1

\* the non-punctuation sequence of the clause of p
ClauseWords(p) == SelectSeq(_clause_nodes(p), LAMBDA n : upos[n] # "PUNCT")

\* the tokens next to t in the non-punctuation sequence of the clause of p
ClauseNeighbours(t, p) ==
  LET np == ClauseWords(p) IN
  {np[i] : i \in {j \in DOMAIN np :
                    (j > 1 /\ np[j - 1] = t) \/ (j < Len(np) /\ np[j + 1] = t)}}

\* C9: a short pronoun clitic "mi" next to the processed clitic in the
\* clause's non-punctuation order is a member of the clitic group.
C9_GroupAcceptsMi ==
  frame.emitted =>
    \A m \in ClauseNeighbours(frame.node, frame.predicate) :
      (Lower(form[m]) = "mi" /\ upos[m] = "PRON") =>
        m \in SeqToSet(frame.clitic_group)

(* ---------------------------------------------------------------------- *)
(* Properties of the clitic group and of its position (SpecGroup)         *)
(* ---------------------------------------------------------------------- *)

\* a token with one of the five clitic forms that is not the preposition se
HasCliticForm(n) ==
  /\ Lower(form[n]) \in {"se", "mu", "ho", "bych", "jsem"}
  /\ ~(Lower(form[n]) = "se" /\ upos[n] = "ADP")

GroupPositions(p, g) ==
  LET np == ClauseWords(p)
      gs == SeqToSet(g)
  IN {i \in DOMAIN np : np[i] \in gs}

Min(S) == CHOOSE x \in S : \A y \in S : x <= y
Max(S) == CHOOSE x \in S : \A y \in S : x >= y

\* the label the claim gives the group g of governor p: the group counts as
\* one unit, whose index is the number of words before its first member
PositionOfGroup(p, g) ==
  LET np == ClauseWords(p)
      pos == GroupPositions(p, g)
  IN IF pos = {} THEN "_"
     ELSE LET first == Min(pos)
              last == Max(pos)
              idx == first - 1
          IN IF idx = 0 THEN "inicialni"
             ELSE IF idx = 1 THEN "postinicialni"
             ELSE IF last = Len(np) /\ np[first - 1] = p THEN "finalni"
             ELSE IF last = Len(np) - 1 /\ np[last + 1] = p THEN "prefinalni"
             ELSE "medialni"

\* C10: clause_position is decided by the index of the whole clitic group, as
\* one unit, among the units of the clause: index 0 inicialni, index 1
\* postinicialni, from index 2 on finalni when the group is the last unit and
\* the governor is the unit before it, prefinalni when the group is the
\* second-to-last unit and the governor is the unit after it, medialni
\* otherwise; "_" exactly when the group is not in the sequence.
C10_PositionOfWholeGroup ==
  frame.emitted =>
    LET label == out[Len(out) - 1][5] IN
    /\ label = PositionOfGroup(frame.predicate, frame.clitic_group)
    /\ label = "_" <=>
         GroupPositions(frame.predicate, frame.clitic_group) = {}

\* "X ho se": the target is the third word and the last one, its group is the
\* second unit, and the position is that of the group
C10_Witness ==
  /\ frame.emitted /\ Len(frame.clitic_group) = 2
  /\ frame.node = frame.clitic_group[2]
  /\ Len(ClauseWords(frame.predicate)) = 3
  /\ ClauseWords(frame.predicate)[3] = frame.node
  /\ LastRow[5] = "postinicialni"

(* ---------------------------------------------------------------------- *)
(* Properties of the helpers called on a governor                         *)
(* ---------------------------------------------------------------------- *)

\* the base relation of a node: its deprel without the ":subtype" suffix
Rel(n) == IF Len(deprel[n]) = 0 THEN "" ELSE Head(deprel[n])

RealNode(n) == n # None /\ n # 0

RECURSIVE InOrd(_)
InOrd(S) == IF S = {} THEN <<>> ELSE <<Min(S)>> \o InOrd(S \ {Min(S)})

\* the governor and, for as long as the current node is attached by xcomp to
\* a real node, that parent (acyclic trees)
RECURSIVE XcompChain(_)
XcompChain(n) ==
  {n} \cup (IF Rel(n) = "xcomp" /\ RealNode(parent[n])
            THEN XcompChain(parent[n]) ELSE {})

ClusterMembers(g) ==
  XcompChain(g) \cup
    {c \in Tokens : parent[c] \in XcompChain(g) /\ Rel(c) \in {"aux", "cop"}}

\* C3: for a real governor of a well-formed tree, predicate_form is the forms
\* of the governor, of the heads of its xcomp chain and of the aux/cop
\* children of all of these, every member once, in strictly increasing ord.
C3_PredicateFormListsCluster ==
  (ret.fn = "_predicate_form" /\ RealNode(ret.predicate)) =>
    LET members == InOrd(ClusterMembers(ret.predicate)) IN
    /\ PredicateFormParts(ret.predicate) = members
    /\ ret.val = Join([i \in DOMAIN members |-> form[members[i]]])

\* an infinitive with an auxiliary of its own under a head that has a copula:
\* four members, the governor not the first of them
C3_Witness ==
  /\ ret.fn = "_predicate_form" /\ RealNode(ret.predicate)
  /\ Cardinality(XcompChain(ret.predicate)) = 2
  /\ Cardinality(ClusterMembers(ret.predicate)) = 4
  /\ \E c \in Tokens : parent[c] = ret.predicate /\ Rel(c) = "aux"
  /\ \E c \in Tokens : parent[c] = parent[ret.predicate] /\ Rel(c) = "cop"
  /\ ret.predicate # 1

\* the nodes from g upwards, up to the one without a real parent
RECURSIVE PathUp(_)
PathUp(n) ==
  <<n>> \o (IF RealNode(parent[n]) THEN PathUp(parent[n]) ELSE <<>>)

Subordinating(n) == Rel(n) \in {"ccomp", "advcl", "acl", "csubj"}

\* decided by the first node of the path that is attached as root or by a
\* subordinating relation; HV when there is none
TypeOfPath(path) ==
  LET marks == {i \in DOMAIN path :
                  Rel(path[i]) = "root" \/ Subordinating(path[i])}
  IN IF marks = {} THEN "HV"
     ELSE IF Subordinating(path[Min(marks)]) THEN "VV" ELSE "HV"

\* C4: in an acyclic tree the clause type of a real governor is decided by the
\* first node on the upward path from the governor whose base relation is
\* root (HV) or one of ccomp, advcl, acl, csubj (VV); when the top of the
\* path is reached without one the answer is HV; xcomp is passed through.
C4_ClauseTypeByFirstLandmark ==
  (ret.fn = "_clause_type" /\ RealNode(ret.predicate)) =>
    ret.val = TypeOfPath(PathUp(ret.predicate))

\* an infinitive two levels below the verb of a relative clause: the walk
\* passes xcomp and nsubj and answers VV
C4_Witness ==
  /\ ret.fn = "_clause_type" /\ RealNode(ret.predicate)
  /\ LET path == PathUp(ret.predicate) IN
     /\ Len(path) >= 3
     /\ Rel(path[1]) = "xcomp" /\ Rel(path[2]) = "nsubj"
     /\ Rel(path[3]) = "acl" /\ deprel[path[3]] = <<"acl", "relcl">>
  /\ ret.val = "VV"

\* V3 -xcomp-> V2 -xcomp-> V1, V1 not attached by xcomp
XcompChains3 ==
  {c \in Tokens \X Tokens \X Tokens :
     /\ parent[c[1]] = c[2] /\ parent[c[2]] = c[3]
     /\ Rel(c[1]) = "xcomp" /\ Rel(c[2]) = "xcomp" /\ Rel(c[3]) # "xcomp"}

\* C7: for a chain of three verbs linked by xcomp, clause_root of each of the
\* three is the top verb V1, clause_type of each is that of V1, and the
\* complex predicate of the lowest verb V3 contains all three.
C7_XcompChainIsOneClause ==
  \A c \in XcompChains3 :
    /\ (ret.fn = "_clause_root" /\ ret.predicate \in {c[1], c[2], c[3]}) =>
         ret.val = c[3]
    /\ (ret.fn = "_clause_type" /\ ret.predicate \in {c[1], c[2], c[3]}) =>
         ret.val = _clause_type(c[3])
    /\ (ret.fn = "_predicate_nodes" /\ ret.predicate = c[1]) =>
         {c[1], c[2], c[3]} \subseteq SeqToSet(ret.val)

\* clause_root was asked for the lowest of three verbs and gave the top one
C7_Witness ==
  /\ ret.fn = "_clause_root"
  /\ \E c \in XcompChains3 :
       /\ \A i \in 1..3 : upos[c[i]] = "VERB"
       /\ ret.predicate = c[1] /\ ret.val = c[3]

(* ---------------------------------------------------------------------- *)
(* clause_type on parent links that run in a cycle (SpecCycle)            *)
(* ---------------------------------------------------------------------- *)

\* the nodes of the upward walk from n, in the order they are met, up to the
\* first one met again or the one without a real parent
RECURSIVE WalkUp(_, _)
WalkUp(n, met) ==
  IF n \in SeqToSet(met) THEN met
  ELSE IF RealNode(parent[n]) THEN WalkUp(parent[n], Append(met, n))
  ELSE Append(met, n)

\* the upward walk from g comes back to a node it has met
Revisits(g) == \A n \in SeqToSet(WalkUp(g, <<>>)) : RealNode(parent[n])

\* C5 (as claimed): for a governor whose upward walk revisits a node,
\* clause_type returns HV.
C5_CycleGivesHV ==
  (ret.fn = "_clause_type" /\ RealNode(ret.predicate)
     /\ Revisits(ret.predicate)) =>
    ret.val = "HV"

\* C5 (as amended): for a governor whose upward walk revisits a node,
\* clause_type ends and returns VV when the first node of the walk attached
\* as root or by a subordinating relation is a subordinating one, and HV
\* otherwise, in particular whenever the revisit is reached.
C5_CycleEndsByLandmarkOrHV ==
  (ret.fn = "_clause_type" /\ RealNode(ret.predicate)
     /\ Revisits(ret.predicate)) =>
    ret.val = TypeOfPath(WalkUp(ret.predicate, <<>>))

\* a cycle of three subjects: the walk meets the governor again and the
\* guard answers HV
C5_Witness ==
  /\ ret.fn = "_clause_type" /\ RealNode(ret.predicate)
  /\ Revisits(ret.predicate)
  /\ Len(WalkUp(ret.predicate, <<>>)) = 3
  /\ parent[WalkUp(ret.predicate, <<>>)[3]] = ret.predicate
  /\ \A n \in SeqToSet(WalkUp(ret.predicate, <<>>)) : Rel(n) = "nsubj"
  /\ ret.val = "HV"

(* ---------------------------------------------------------------------- *)
(* Termination of the traversals (SpecWalk)                               *)
(* ---------------------------------------------------------------------- *)

\* C6: on any finite node graph, cycles of parent links included, the xcomp
\* climb of the predicate resolver, the upward walk of clause_type, the xcomp
\* climb of clause_root and the subtree collection each take up every node at
\* most once and stop: a loop never runs more iterations than there are
\* nodes, plus the one that leaves it.
C6_TraversalsVisitOnceAndStop ==
  /\ \A n \in Nodes : wcount[n] <= 1
  /\ wsteps <= Cardinality(Nodes) + 1
  /\ pc = "loop" => ENABLED NextWalk

\* clause_type has returned by its cycle guard after a walk round a cycle of
\* all the tokens of the sentence
C6_Witness ==
  /\ pc = "done" /\ wkind = "_clause_type"
  /\ wvisited = Tokens /\ wnode \in wvisited
  /\ Cardinality(Tokens) >= 3
  /\ wsteps = Cardinality(Tokens) + 1

\* the step-wise traversals return what the operators return
WalkAgreesWithOperators ==
  pc = "done" =>
    ret.val = CASE wkind = "_predicate_form" -> _predicate_form(warg)
                [] wkind = "_clause_type" -> _clause_type(warg)
                [] wkind = "_clause_root" -> _clause_root(warg)
                [] wkind = "_collect_subtree_nodes" ->
                     _collect_subtree_nodes(warg)

(* ---------------------------------------------------------------------- *)
(* The relation of the clitic group to its governor (SpecRel)             *)
(* ---------------------------------------------------------------------- *)

RelationLabels ==
  { "kontaktni preverbalni", "kontaktni postverbalni",
    "kontaktni interverbalni", "izolovana", "jine" }

\* the group unit and the governor are both in the unit sequence: a member of
\* the group is in the clause's non-punctuation sequence, and so is the
\* governor, which is not itself a member of the group
Resolvable(p, g) ==
  /\ GroupPositions(p, g) # {}
  /\ p \in SeqToSet(ClauseWords(p))
  /\ p \notin SeqToSet(g)

\* the label the claim gives a resolvable pair.  The group unit stands where
\* the first member of the group stands; the unit to its left is the word
\* before that member, the unit to its right the first word after it that is
\* not a member of the group.
RelationOfGroup(p, g) ==
  LET np == ClauseWords(p)
      pos == GroupPositions(p, g)
      first == Min(pos)
      after == {i \in DOMAIN np : i > first /\ i \notin pos}
      left == IF first > 1 THEN np[first - 1] ELSE None
      right == IF after # {} THEN np[Min(after)] ELSE None
      complex == ClusterMembers(p)
      governor_at == CHOOSE i \in DOMAIN np : np[i] = p
  IN IF right = p THEN "kontaktni preverbalni"
     ELSE IF left = p THEN "kontaktni postverbalni"
     ELSE IF left \in complex /\ right \in complex
     THEN "kontaktni interverbalni"
     ELSE IF first < governor_at THEN "izolovana"
     ELSE "jine"

\* C11: when the group unit and the governor are both in the clause's unit
\* sequence, relation_to_regent is one of the five labels, never "_", and it
\* is the first that applies of: the group unit directly before the governor,
\* kontaktni preverbalni; directly after it, kontaktni postverbalni; the units
\* on both sides of the group members of the complex predicate, kontaktni
\* interverbalni; the group before the governor, izolovana; else jine.  The
\* neighbours are those of the whole group, so a group whose last member is
\* directly before the governor is kontaktni preverbalni.
C11_RelationByFirstMatch ==
  (ret.fn = "_relation_to_regent"
     /\ Resolvable(frame.predicate, frame.clitic_group)) =>
    LET p == frame.predicate
        g == frame.clitic_group
        np == ClauseWords(p)
        pos == GroupPositions(p, g)
    IN /\ ret.val \in RelationLabels
       /\ ret.val = RelationOfGroup(p, g)
       /\ (pos = Min(pos)..Max(pos) /\ Max(pos) < Len(np)
             /\ np[Max(pos) + 1] = p) => ret.val = "kontaktni preverbalni"

\* the group of two tokens of the test: its last member is directly before
\* the governor, its first member is not, and another word opens the clause
C11_Witness ==
  /\ ret.fn = "_relation_to_regent"
  /\ Resolvable(frame.predicate, frame.clitic_group)
  /\ Len(frame.clitic_group) = 2
  /\ LET np == ClauseWords(frame.predicate) IN
     /\ Len(np) = 4
     /\ frame.clitic_group = <<np[2], np[3]>>
     /\ np[4] = frame.predicate
  /\ ret.val = "kontaktni preverbalni"

(* ---------------------------------------------------------------------- *)
(* The two computations of the predicate's members (SpecAgree)            *)
(* ---------------------------------------------------------------------- *)

\* the forms of a list of nodes, joined with spaces
FormsOf(nodes) == Join([i \in DOMAIN nodes |-> form[nodes[i]]])

\* one of the two computations has been called on governor p
PredicateQueried(p) ==
  /\ ret.fn \in {"_predicate_form", "_predicate_nodes"}
  /\ ret.predicate = p
  /\ ret.val = IF ret.fn = "_predicate_form" THEN _predicate_form(p)
               ELSE _predicate_nodes(p)

\* C12 as stated: the forms of the nodes of _predicate_nodes, in their order,
\* are what _predicate_form joins, and the list is empty exactly when
\* _predicate_form returns "_".
C12_EmptyIffUnderscore ==
  \A p \in Args : PredicateQueried(p) =>
    /\ _predicate_nodes(p) # <<>> => _predicate_form(p) = FormsOf(_predicate_nodes(p))
    /\ _predicate_nodes(p) = <<>> <=> _predicate_form(p) = "_"

\* C12: the forms of the nodes of _predicate_nodes, in their order, are what
\* _predicate_form joins; the list is empty exactly when the governor is
\* absent or the virtual root, and then _predicate_form returns "_".
C12_NodesAndFormAgree ==
  \A p \in Args : PredicateQueried(p) =>
    /\ _predicate_nodes(p) # <<>> => _predicate_form(p) = FormsOf(_predicate_nodes(p))
    /\ _predicate_nodes(p) = <<>> <=> (p = None \/ is_root(p))
    /\ _predicate_nodes(p) = <<>> => _predicate_form(p) = "_"

\* _predicate_nodes has returned three members for an infinitive that is not
\* the first of them, and _predicate_form gives their three forms
C12_Witness ==
  /\ ret.fn = "_predicate_nodes" /\ Len(ret.val) = 3
  /\ PredicateQueried(ret.predicate)
  /\ ret.val[1] # ret.predicate
  /\ BaseDeprel(ret.predicate) = "xcomp"
  /\ \E c \in SeqToSet(ret.val) : BaseDeprel(c) \in {"aux", "cop"}
  /\ _predicate_form(ret.predicate) = FormsOf(ret.val)

====
